---- MODULE Spec2Model ----
(***************************************************************************)
(* chart-a-tui (src/src/main.rs): a terminal program with a two-mode input *)
(* controller (Normal / Editing), a path buffer, a CSV load pipeline and a *)
(* render / read-one-event loop.                                           *)
(*                                                                         *)
(* Encodings.  Option<T> is a sequence of length <= 1 (None == << >>,      *)
(* Some(v) == <<v>>).  A String is a sequence of one-character strings.    *)
(* A file on disk is modelled after tokenisation: the sequence of raw rows *)
(* the csv tokenizer finds in it, a row being a sequence of fields and a   *)
(* field a String.  f64 values are modelled by the integers the decimal    *)
(* literals of the model denote.                                           *)
(***************************************************************************)
EXTENDS Integers, Sequences, FiniteSets, TLC

VARIABLES
    pc,             \* position in main / App::run
    running,        \* App.running
    input_mode,     \* App.input_mode
    input,          \* App.input
    data,           \* App.data
    error_message,  \* App.error_message
    result,         \* the Result returned by App::run ("none" while running)
    setups,         \* number of calls of ratatui::init
    teardowns,      \* number of calls of ratatui::restore
    last,           \* history: the event handled by the latest loop iteration, the mode,
                    \* buffer and series it found, and what load_csv read (if called)
    net,            \* history: appends minus backspaces applied to a non-empty buffer
    frame           \* what the latest render put on the Frame (None before the first)

vars == <<pc, running, input_mode, input, data, error_message, result,
          setups, teardowns, last, net, frame>>

-----------------------------------------------------------------------------
(* Bounds *)

\* longest path buffer the user types
MaxInput == 2
\* largest number of raw rows in a file
MaxRows == 3

-----------------------------------------------------------------------------
(* Option *)

None == << >>
Some(v) == <<v>>
IsSome(o) == o # << >>

-----------------------------------------------------------------------------
(* Input events: crossterm::event::Event *)

\* characters the user can type
Chars == {"e", "q"}

Char(c) == [k |-> "Char", c |-> c]
Enter == [k |-> "Enter", c |-> ""]
Backspace == [k |-> "Backspace", c |-> ""]
Esc == [k |-> "Esc", c |-> ""]
Tab == [k |-> "Tab", c |-> ""]

KeyCodes == {Char(c) : c \in Chars} \cup {Enter, Backspace, Esc, Tab}
KeyEventKinds == {"Press", "Repeat", "Release"}

KeyEv(code, kind) == [type |-> "Key", code |-> code, kind |-> kind]
Press(code) == KeyEv(code, "Press")
OtherEv(t) == [type |-> t, code |-> Tab, kind |-> "Press"]

Events ==
    {KeyEv(code, kind) : code \in KeyCodes, kind \in KeyEventKinds}
        \cup {OtherEv("Resize"), OtherEv("Mouse")}

\* the events of a keyboard that also has a key for a character outside ASCII
WideEvents == Events \cup {Press(Char("é"))}

-----------------------------------------------------------------------------
(* Files *)

\* rows of two numeric columns
GoodRows == {<< <<"1">>, <<"3">> >>, << <<"2">>, <<"3">> >>}
\* rows of two columns, one of which is no number
BadRows == {<< <<"x">>, <<"3">> >>, << <<"1">>, <<"x">> >>}
\* a row of fewer than two columns
ShortRows == {<< <<"1">> >>}
\* a row with an extra column
LongRows == {<< <<"2">>, <<"3">>, <<"x">> >>}
Rows == GoodRows \cup BadRows \cup ShortRows \cup LongRows

RowSeqs(n) == [1..n -> Rows]
Files == UNION {RowSeqs(n) : n \in 0..MaxRows}

\* what the file system holds at a path: nothing that can be opened, or a file
NoSuchFile == [exists |-> FALSE, rows |-> << >>]
FileOf(rows) == [exists |-> TRUE, rows |-> rows]
SourcesIn(path, files) ==
    IF path = << >> THEN {NoSuchFile}
    ELSE {NoSuchFile} \cup {FileOf(f) : f \in files}
Sources(path) == SourcesIn(path, Files)

\* a row whose first column is the literal NaN
NanRows == {<< <<"N", "a", "N">>, <<"3">> >>}
\* files of numeric rows, NaN among the numbers
FloatFiles == UNION {[1..n -> GoodRows \cup NanRows] : n \in 0..MaxRows}

-----------------------------------------------------------------------------
(* f64: the finite values the decimal literals of the model denote, the    *)
(* two infinities and NaN                                                  *)

F64(n) == [k |-> "num", v |-> n]
NaN == [k |-> "nan", v |-> 0]
Infinity == [k |-> "inf", v |-> 1]
NegInfinity == [k |-> "inf", v |-> 0 - 1]

IsNaN(a) == a.k = "nan"
\* a < b on f64: false when either side is NaN
F64Lt(a, b) ==
    /\ ~IsNaN(a) /\ ~IsNaN(b)
    /\ LET ia == IF a.k = "inf" THEN a.v ELSE 0
           ib == IF b.k = "inf" THEN b.v ELSE 0
       IN  ia < ib \/ (ia = ib /\ a.k = "num" /\ b.k = "num" /\ a.v < b.v)
\* a <= b on f64: false when either side is NaN
F64Le(a, b) == ~IsNaN(a) /\ ~IsNaN(b) /\ ~F64Lt(b, a)

\* f64::min: the other operand when one is NaN
F64Min(a, b) == IF IsNaN(a) THEN b ELSE IF IsNaN(b) THEN a ELSE IF F64Lt(b, a) THEN b ELSE a
\* f64::max: the other operand when one is NaN
F64Max(a, b) == IF IsNaN(a) THEN b ELSE IF IsNaN(b) THEN a ELSE IF F64Lt(a, b) THEN b ELSE a

-----------------------------------------------------------------------------
(* str::parse::<f64>: decimal literals, "inf" and "NaN", with a sign *)

NanWords == {<<"N", "a", "N">>, <<"n", "a", "n">>}
InfWords == {<<"i", "n", "f">>}

Digits == {"0", "1", "2", "3", "4", "5", "6", "7", "8", "9"}
DigitVal(c) ==
    CASE c = "0" -> 0 [] c = "1" -> 1 [] c = "2" -> 2 [] c = "3" -> 3
      [] c = "4" -> 4 [] c = "5" -> 5 [] c = "6" -> 6 [] c = "7" -> 7
      [] c = "8" -> 8 [] c = "9" -> 9

RECURSIVE DecValue(_, _)
DecValue(s, acc) ==
    IF s = << >> THEN acc ELSE DecValue(Tail(s), 10 * acc + DigitVal(Head(s)))

ParseF64(s) ==
    LET signed == s # << >> /\ Head(s) \in {"+", "-"}
        neg == signed /\ Head(s) = "-"
        body == IF signed THEN Tail(s) ELSE s
    IN  IF body \in NanWords THEN [ok |-> TRUE, val |-> NaN]
        ELSE IF body \in InfWords
        THEN [ok |-> TRUE, val |-> IF neg THEN NegInfinity ELSE Infinity]
        ELSE IF body = << >> \/ \E i \in 1..Len(body) : body[i] \notin Digits
        THEN [ok |-> FALSE, val |-> F64(0)]
        ELSE [ok |-> TRUE,
              val |-> IF neg THEN F64(0 - DecValue(body, 0)) ELSE F64(DecValue(body, 0))]

-----------------------------------------------------------------------------
(* csv::Reader::from_path(..).records(): the reader is built with the      *)
(* builder's defaults, has_headers(true) and flexible(false).              *)

HasHeaders == TRUE
Flexible == FALSE

\* index of the first row that records() yields
FirstRecord == IF HasHeaders THEN 2 ELSE 1

\* one item of records(): Ok(row), or Err(UnequalLengths) when the row's field
\* count differs from the first row's and the reader is not flexible
ReadRecord(rows, i) ==
    IF ~Flexible /\ Len(rows[i]) # Len(rows[1])
    THEN [ok |-> FALSE, rec |-> << >>]
    ELSE [ok |-> TRUE, rec |-> rows[i]]

Records(rows) ==
    [j \in 1..(Len(rows) - (FirstRecord - 1)) |-> ReadRecord(rows, j + (FirstRecord - 1))]

-----------------------------------------------------------------------------
(* App *)

ErrIo == "Error: No such file or directory (os error 2)"
ErrCsv == "Error: CSV error: found record with unequal number of fields"
ErrParse == "Error: invalid float literal"
ErrNoValid == "Error: No valid data found in CSV"

\* format!("Error: {}", e)
FormatError(e) == e

App(r, m, i, d, e) ==
    [running |-> r, input_mode |-> m, input |-> i, data |-> d, error_message |-> e]

\* App::new(): Self::default()
New == App(FALSE, "Normal", << >>, << >>, None)

Self == App(running, input_mode, input, data, error_message)

\* App::quit
Quit(self) == [self EXCEPT !.running = FALSE]

\* the for loop of load_csv from item i on: the first error that `?` returns
\* (or None) and new_data as it is when the loop is left
RECURSIVE ScanRecords(_, _, _)
ScanRecords(results, i, new_data) ==
    IF i > Len(results) THEN [err |-> None, data |-> new_data]
    ELSE
        LET res == results[i] IN
        IF ~res.ok THEN [err |-> Some(ErrCsv), data |-> new_data]
        ELSE
            LET record == res.rec IN
            IF Len(record) >= 2
            THEN
                LET x == ParseF64(record[1])
                    y == ParseF64(record[2])
                IN  IF ~x.ok \/ ~y.ok THEN [err |-> Some(ErrParse), data |-> new_data]
                    ELSE ScanRecords(results, i + 1, Append(new_data, <<x.val, y.val>>))
            ELSE ScanRecords(results, i + 1, new_data)

\* a load that appends the new records to the series it finds
InstallDataAppends(old, new_data) == old \o new_data

\* self.data = new_data
InstallData(old, new_data) == new_data

\* a load that stores each record in self.data as soon as it is parsed
LoadCsvPartial(self, src) ==
    IF ~src.exists THEN [err |-> Some(ErrIo), self |-> self]
    ELSE
        LET scan == ScanRecords(Records(src.rows), 1, << >>) IN
        IF IsSome(scan.err) THEN [err |-> scan.err, self |-> [self EXCEPT !.data = scan.data]]
        ELSE IF scan.data = << >> THEN [err |-> Some(ErrNoValid), self |-> self]
        ELSE [err |-> None, self |-> [self EXCEPT !.data = scan.data]]

\* a load without the test for an empty result
LoadCsvAllowsEmpty(self, src) ==
    IF ~src.exists THEN [err |-> Some(ErrIo), self |-> self]
    ELSE
        LET scan == ScanRecords(Records(src.rows), 1, << >>) IN
        IF IsSome(scan.err) THEN [err |-> scan.err, self |-> self]
        ELSE [err |-> None, self |-> [self EXCEPT !.data = scan.data]]

\* App::load_csv: [err |-> the Err returned or None, self |-> self afterwards]
LoadCsv(self, src) ==
    IF ~src.exists THEN [err |-> Some(ErrIo), self |-> self]
    ELSE
        LET scan == ScanRecords(Records(src.rows), 1, << >>) IN
        IF IsSome(scan.err) THEN [err |-> scan.err, self |-> self]
        ELSE IF scan.data = << >> THEN [err |-> Some(ErrNoValid), self |-> self]
        ELSE [err |-> None,
              self |-> [self EXCEPT !.data = InstallData(self.data, scan.data)]]

\* an Enter arm that leaves Editing mode whether or not the load failed
OnEnterLeavesEditing(self, src) ==
    LET r == LoadCsv(self, src) IN
    IF IsSome(r.err)
    THEN [r.self EXCEPT !.error_message = Some(FormatError(r.err[1])),
                        !.input_mode = "Normal"]
    ELSE [r.self EXCEPT !.error_message = None, !.input_mode = "Normal"]

\* an Enter arm that forgets to clear the error after a successful load
OnEnterKeepsError(self, src) ==
    LET r == LoadCsv(self, src) IN
    IF IsSome(r.err)
    THEN [r.self EXCEPT !.error_message = Some(FormatError(r.err[1]))]
    ELSE [r.self EXCEPT !.input_mode = "Normal"]

\* an Enter arm with a third mode, left behind when the load fails
OnEnterLoading(self, src) ==
    LET r == LoadCsv([self EXCEPT !.input_mode = "Loading"], src) IN
    IF IsSome(r.err)
    THEN [r.self EXCEPT !.error_message = Some(FormatError(r.err[1]))]
    ELSE [r.self EXCEPT !.error_message = None, !.input_mode = "Normal"]

\* the KeyCode::Enter arm of on_key_event
OnEnter(self, src) ==
    LET r == LoadCsv(self, src) IN
    IF IsSome(r.err)
    THEN [r.self EXCEPT !.error_message = Some(FormatError(r.err[1]))]
    ELSE [r.self EXCEPT !.error_message = None, !.input_mode = "Normal"]

\* String::push
Push(s, c) == Append(s, c)
\* a pop that empties the buffer
PopClears(s) == << >>

\* String::pop
Pop(s) == IF s = << >> THEN s ELSE SubSeq(s, 1, Len(s) - 1)

\* an Esc arm that also discards what was typed
OnEscClears(self) == [self EXCEPT !.input_mode = "Normal", !.input = << >>]

\* an Esc arm that also dismisses the error
OnEscClearsError(self) == [self EXCEPT !.input_mode = "Normal", !.error_message = None]

\* an Esc arm that does nothing
OnEscStays(self) == self

\* the KeyCode::Esc arm of on_key_event
OnEsc(self) == [self EXCEPT !.input_mode = "Normal"]

\* two consecutive tests of the mode instead of one match: the key that switches
\* to Editing is then also handled as an Editing key
OnKeyEventFallsThrough(self, key, src) ==
    LET first ==
            IF self.input_mode = "Normal"
            THEN
                IF key.code = Char("e") THEN [self EXCEPT !.input_mode = "Editing"]
                ELSE IF key.code = Char("q") THEN Quit(self)
                ELSE self
            ELSE self
    IN  IF first.input_mode = "Editing"
        THEN
            IF key.code = Enter THEN OnEnter(first, src)
            ELSE IF key.code.k = "Char" THEN [first EXCEPT !.input = Push(@, key.code.c)]
            ELSE IF key.code = Backspace THEN [first EXCEPT !.input = Pop(@)]
            ELSE IF key.code = Esc THEN OnEsc(first)
            ELSE first
        ELSE first

\* a q that quits in either mode
OnKeyEventQuitsAnywhere(self, key, src) ==
    IF key.code = Char("q") THEN Quit(self)
    ELSE IF self.input_mode = "Normal"
    THEN
        IF key.code = Char("e") THEN [self EXCEPT !.input_mode = "Editing"]
        ELSE self
    ELSE
        IF key.code = Enter THEN OnEnter(self, src)
        ELSE IF key.code.k = "Char" THEN [self EXCEPT !.input = Push(@, key.code.c)]
        ELSE IF key.code = Backspace THEN [self EXCEPT !.input = Pop(@)]
        ELSE IF key.code = Esc THEN OnEsc(self)
        ELSE self

\* App::on_key_event; src is what the file system holds at the path, read by Enter only
OnKeyEvent(self, key, src) ==
    IF self.input_mode = "Normal"
    THEN
        IF key.code = Char("e") THEN [self EXCEPT !.input_mode = "Editing"]
        ELSE IF key.code = Char("q") THEN Quit(self)
        ELSE self
    ELSE
        IF key.code = Enter THEN OnEnter(self, src)
        ELSE IF key.code.k = "Char" THEN [self EXCEPT !.input = Push(@, key.code.c)]
        ELSE IF key.code = Backspace THEN [self EXCEPT !.input = Pop(@)]
        ELSE IF key.code = Esc THEN OnEsc(self)
        ELSE self

\* a guard that lets every key event through, whatever its kind
IsAnyKey(ev) == ev.type = "Key"

\* the guard of the first match arm of handle_crossterm_events
IsKeyPress(ev) == ev.type = "Key" /\ ev.kind = "Press"

\* the match of handle_crossterm_events on the event read
Dispatch(self, ev, src) == IF IsKeyPress(ev) THEN OnKeyEvent(self, ev, src) ELSE self

\* the event makes on_key_event call load_csv
Loads(self, ev) == IsKeyPress(ev) /\ self.input_mode = "Editing" /\ ev.code = Enter
\* the event makes on_key_event push a character
Appends(self, ev) == IsKeyPress(ev) /\ self.input_mode = "Editing" /\ ev.code.k = "Char"
\* the event makes on_key_event pop a character off a non-empty buffer
Pops(self, ev) ==
    IsKeyPress(ev) /\ self.input_mode = "Editing" /\ ev.code = Backspace
        /\ self.input # << >>

\* self.data.iter().map(..).fold(acc, f64::min)
RECURSIVE FoldMin(_, _)
FoldMin(acc, s) == IF s = << >> THEN acc ELSE FoldMin(F64Min(acc, Head(s)), Tail(s))
\* self.data.iter().map(..).fold(acc, f64::max)
RECURSIVE FoldMax(_, _)
FoldMax(acc, s) == IF s = << >> THEN acc ELSE FoldMax(F64Max(acc, Head(s)), Tail(s))

\* the x (col = 1) or y (col = 2) values of the series
Project(d, col) == [i \in 1..Len(d) |-> d[i][col]]

\* App::get_x_bounds
GetXBounds(self) ==
    IF self.data = << >> THEN <<F64(0), F64(10)>>
    ELSE <<FoldMin(Infinity, Project(self.data, 1)),
           FoldMax(NegInfinity, Project(self.data, 1))>>

\* App::get_y_bounds
GetYBounds(self) ==
    IF self.data = << >> THEN <<F64(0), F64(10)>>
    ELSE <<FoldMin(Infinity, Project(self.data, 2)),
           FoldMax(NegInfinity, Project(self.data, 2))>>

\* chunks[1].x and chunks[1].y: the layout has margin 2 and a first chunk of height 1
BoxX == 2
BoxY == 3
\* the number of values of a u16
U16 == 65536

\* the number of bytes of the UTF-8 encoding of a character
Utf8Len(c) == IF c \in {"e", "q"} THEN 1 ELSE 2
\* String::len: the length in bytes
RECURSIVE ByteLen(_)
ByteLen(s) == IF s = << >> THEN 0 ELSE Utf8Len(Head(s)) + ByteLen(Tail(s))

\* chunks[1].x + self.input.len() as u16 + 1
CursorX(self) == (BoxX + (ByteLen(self.input) % U16) + 1) % U16

\* the text of the status line: the error, or the placeholder
StatusLine(self) ==
    IF IsSome(self.error_message) THEN self.error_message[1]
    ELSE "Enter a CSV path (e.g., test.csv) and press Enter"

\* App::render: the cursor position asked for and the bounds given to the axes
Render(self) ==
    [cursor |-> IF self.input_mode = "Editing"
                THEN Some(<<CursorX(self), BoxY + 1>>)
                ELSE None,
     x_bounds |-> GetXBounds(self),
     y_bounds |-> GetYBounds(self)]

\* a loop that never tests self.running
LoopCondAlways(self) == TRUE

\* the condition of the while loop of App::run
LoopCond(self) == self.running

-----------------------------------------------------------------------------
(* main and App::run *)

Init ==
    /\ pc = "main"
    /\ running = New.running
    /\ input_mode = New.input_mode
    /\ input = New.input
    /\ data = New.data
    /\ error_message = New.error_message
    /\ result = "none"
    /\ setups = 0
    /\ teardowns = 0
    /\ last = None
    /\ net = 0
    /\ frame = None

\* let terminal = ratatui::init();
TerminalInit ==
    /\ pc = "main"
    /\ setups' = setups + 1
    /\ pc' = "run"
    /\ UNCHANGED <<running, input_mode, input, data, error_message, result,
                   teardowns, last, net, frame>>

\* self.running = true;
RunStart ==
    /\ pc = "run"
    /\ running' = TRUE
    /\ pc' = "while"
    /\ UNCHANGED <<input_mode, input, data, error_message, result, setups,
                   teardowns, last, net, frame>>

\* while self.running { .. } Ok(())
LoopTest ==
    /\ pc = "while"
    /\ IF LoopCond(Self)
       THEN pc' = "draw" /\ result' = result
       ELSE pc' = "restore" /\ result' = "Ok"
    /\ last' = None
    /\ UNCHANGED <<running, input_mode, input, data, error_message, setups,
                   teardowns, net, frame>>

\* terminal.draw(|frame| self.render(frame))?  returns Ok
Draw ==
    /\ pc = "draw"
    /\ frame' = Some(Render(Self))
    /\ pc' = "events"
    /\ UNCHANGED <<running, input_mode, input, data, error_message, result,
                   setups, teardowns, last, net>>

\* a main that returns the error of run before it restores the terminal
DrawFailsSkipsRestore ==
    /\ pc = "draw"
    /\ pc' = "exit"
    /\ result' = "Err"
    /\ UNCHANGED <<running, input_mode, input, data, error_message, setups,
                   teardowns, last, net, frame>>

\* terminal.draw(..)?  returns Err
DrawFails ==
    /\ pc = "draw"
    /\ pc' = "restore"
    /\ result' = "Err"
    /\ UNCHANGED <<running, input_mode, input, data, error_message, setups,
                   teardowns, last, net, frame>>

\* self.handle_crossterm_events()?  with event::read() returning Ok(ev), for the
\* events a keyboard can send and the files a disk can hold
HandleEvents(events, files) ==
    /\ pc = "events"
    /\ \E ev \in events :
        /\ Appends(Self, ev) => Len(input) < MaxInput
        /\ \E src \in (IF Loads(Self, ev) THEN SourcesIn(input, files) ELSE {NoSuchFile}) :
            LET self == Dispatch(Self, ev, src) IN
            /\ running' = self.running
            /\ input_mode' = self.input_mode
            /\ input' = self.input
            /\ data' = self.data
            /\ error_message' = self.error_message
            /\ last' = Some([ev |-> ev,
                             mode |-> input_mode,
                             input |-> input,
                             data |-> data,
                             load |-> IF Loads(Self, ev) THEN Some(src) ELSE None])
            /\ net' = IF Appends(Self, ev) THEN net + 1
                      ELSE IF Pops(Self, ev) THEN net - 1
                      ELSE net
    /\ pc' = "while"
    /\ UNCHANGED <<result, setups, teardowns, frame>>

HandleCrosstermEvents == HandleEvents(Events, Files)
HandleCrosstermEventsWide == HandleEvents(WideEvents, FloatFiles)

\* self.handle_crossterm_events()?  with event::read() returning Err
EventReadFails ==
    /\ pc = "events"
    /\ pc' = "restore"
    /\ result' = "Err"
    /\ UNCHANGED <<running, input_mode, input, data, error_message, setups,
                   teardowns, last, net, frame>>

\* ratatui::restore(); result
TerminalRestore ==
    /\ pc = "restore"
    /\ teardowns' = teardowns + 1
    /\ pc' = "exit"
    /\ UNCHANGED <<running, input_mode, input, data, error_message, result,
                   setups, last, net, frame>>

Next ==
    \/ TerminalInit
    \/ RunStart
    \/ LoopTest
    \/ Draw
    \/ DrawFails
    \/ HandleCrosstermEvents
    \/ EventReadFails
    \/ TerminalRestore

Spec == Init /\ [][Next]_vars

\* the program on a keyboard with a non-ASCII key and a disk of numeric files
NextWide ==
    \/ TerminalInit
    \/ RunStart
    \/ LoopTest
    \/ Draw
    \/ DrawFails
    \/ HandleCrosstermEventsWide
    \/ EventReadFails
    \/ TerminalRestore

SpecWide == Init /\ [][NextWide]_vars

-----------------------------------------------------------------------------
(* Vocabulary of the properties *)

\* the latest loop iteration has handled an event
Handled == IsSome(last)
\* the latest event made on_key_event call load_csv
LoadCalled == Handled /\ IsSome(last[1].load)
\* what load_csv found at the path
Src == last[1].load[1]
\* the Result of load_csv on what it read (it does not depend on the App)
LoadErr(src) == LoadCsv(New, src).err

\* a row with both required columns numeric
Valid(r) == Len(r) >= 2 /\ ParseF64(r[1]).ok /\ ParseF64(r[2]).ok
\* a row that has both required columns, one of which is no number
Malformed(r) == Len(r) >= 2 /\ ~(ParseF64(r[1]).ok /\ ParseF64(r[2]).ok)
\* the record a valid row stands for
RecordOf(r) == <<ParseF64(r[1]).val, ParseF64(r[2]).val>>
\* every row has the same number of columns, at least two
Rectangular(rows) ==
    \A i \in 1..Len(rows) : Len(rows[i]) >= 2 /\ Len(rows[i]) = Len(rows[1])

-----------------------------------------------------------------------------
(* C1: during a load, a row that has at least 2 columns but whose column 0 *)
(* or column 1 is no number is skipped: the load still succeeds (mode      *)
(* Normal, no error) and every valid row after it becomes a record. Stated *)
(* for rectangular files and for a malformed row that is not the first row *)
(* of the file, so that neither the header row nor the field-count check   *)
(* of the reader is involved.                                              *)
C1_MalformedRowSkipped ==
    LoadCalled /\ Src.exists /\ Rectangular(Src.rows) =>
        \A i \in 2..Len(Src.rows) : \A j \in (i + 1)..Len(Src.rows) :
            Malformed(Src.rows[i]) /\ Valid(Src.rows[j]) =>
                /\ error_message = None
                /\ input_mode = "Normal"
                /\ \E n \in 1..Len(data) : data[n] = RecordOf(Src.rows[j])

(* C2: loading a well-formed file of N >= 1 valid rows yields exactly N    *)
(* records in row order, record i built from row i of the file: the first  *)
(* row is data like every other row.                                       *)
C2_EveryRowIsData ==
    LoadCalled /\ Src.exists /\ Len(Src.rows) >= 1 /\ Rectangular(Src.rows)
        /\ (\A i \in 1..Len(Src.rows) : Valid(Src.rows[i]))
    => /\ Len(data) = Len(Src.rows)
       /\ \A i \in 1..Len(Src.rows) : data[i] = RecordOf(Src.rows[i])

(* C3: when Enter is pressed in Editing mode and the load fails, the loop  *)
(* goes on: running stays true, run has not returned, lastError is set and *)
(* the mode is still Editing.                                              *)
C3_FailedLoadKeepsLoopAlive ==
    LoadCalled /\ IsSome(LoadErr(Src)) =>
        /\ running
        /\ pc = "while" /\ result = "none"
        /\ IsSome(error_message)
        /\ input_mode = "Editing"

\* a file that yields zero valid rows has been submitted
C3_Witness ==
    /\ LoadCalled /\ Src.exists /\ Len(Src.rows) = MaxRows
    /\ error_message = Some(ErrNoValid)
    /\ running /\ input_mode = "Editing"

(* C4: a failed load, whatever the cause, leaves the series as it was      *)
(* before Enter: no prefix of the new file's records is visible.           *)
C4_FailedLoadKeepsSeries ==
    LoadCalled /\ IsSome(LoadErr(Src)) => data = last[1].data

\* a load that failed after a valid row had been parsed, with a series loaded before
C4_Witness ==
    /\ LoadCalled /\ Src.exists /\ Len(Src.rows) >= 3
    /\ Valid(Src.rows[2]) /\ Malformed(Src.rows[3])
    /\ error_message = Some(ErrParse)
    /\ data # << >> /\ data = last[1].data

\* the records load_csv is left with after a scan without error: the rows after
\* the header row that have both columns
DataRows(rows) == SelectSeq(Tail(rows), LAMBDA r : Len(r) >= 2)
ParsedRecords(rows) == [i \in 1..Len(DataRows(rows)) |-> RecordOf(DataRows(rows)[i])]

(* C5: when Enter is pressed in Editing mode and the load succeeds,        *)
(* lastError is null, the mode is Normal and the series is the sequence of *)
(* records parsed from the file.                                           *)
C5_SuccessfulLoadClearsError ==
    LoadCalled /\ ~IsSome(LoadErr(Src)) =>
        /\ error_message = None
        /\ input_mode = "Normal"
        /\ data = ParsedRecords(Src.rows)

\* a load of two records has succeeded
C5_Witness ==
    /\ LoadCalled /\ ~IsSome(LoadErr(Src))
    /\ Len(data) = 2 /\ data[1] # data[2]
    /\ input_mode = "Normal" /\ error_message = None

(* C6: after any history of loads, a successful load of file F leaves the  *)
(* series that loading F into a freshly constructed App leaves: the series *)
(* depends on F only, so loading a file whose records are already the      *)
(* series leaves the series identical, not doubled.                        *)
C6_LoadDependsOnFileOnly ==
    LoadCalled /\ ~IsSome(LoadErr(Src)) => data = LoadCsv(New, Src).self.data

\* a successful load of a file whose records were the series already
C6_Witness ==
    /\ LoadCalled /\ ~IsSome(LoadErr(Src))
    /\ last[1].data # << >>
    /\ last[1].data = LoadCsv(New, Src).self.data
    /\ data = last[1].data

(* C7: a q key-press in Normal mode sets running to false; the loop draws  *)
(* and reads events only while running is true, so it then exits without   *)
(* another render or event read, and run returns Ok.                       *)
C7_QuitStopsLoop ==
    /\ (Handled /\ last[1].ev = Press(Char("q")) /\ last[1].mode = "Normal") => ~running
    /\ pc \in {"draw", "events"} => running
    /\ (pc \in {"restore", "exit"} /\ ~running) => result = "Ok"

\* q has been pressed in Normal mode, with a series loaded
C7_Witness ==
    /\ Handled /\ last[1].ev = Press(Char("q")) /\ last[1].mode = "Normal"
    /\ data # << >>
    /\ ~running

\* the step is one call of handle_crossterm_events that read an event
EventStep == pc = "events" /\ pc' = "while"

(* C8: Esc pressed in Editing mode returns to Normal mode, calls no load   *)
(* (series and lastError stay as they were) and keeps the path buffer as   *)
(* it was.                                                                 *)
C8_EscKeepsBuffer ==
    [][(EventStep /\ input_mode = "Editing" /\ last'[1].ev = Press(Esc)) =>
            /\ input_mode' = "Normal"
            /\ input' = input
            /\ last'[1].load = None
            /\ data' = data
            /\ error_message' = error_message]_vars

\* Esc has been pressed in Editing mode on a non-empty buffer
C8_Witness ==
    /\ Handled /\ last[1].ev = Press(Esc) /\ last[1].mode = "Editing"
    /\ Len(last[1].input) = MaxInput
    /\ input_mode = "Normal"

(* C9: the path buffer's length is never negative and equals the number of *)
(* appends minus the number of backspaces applied to a non-empty buffer;   *)
(* Backspace on an empty buffer changes nothing; only character keys and   *)
(* Backspace pressed in Editing mode change the buffer.                    *)
C9_BufferLengthIsNetEdits ==
    /\ Len(input) = net
    /\ net >= 0
    /\ Handled =>
        /\ (last[1].ev = Press(Backspace) /\ last[1].input = << >>) => input = << >>
        /\ input # last[1].input =>
            /\ last[1].mode = "Editing"
            /\ last[1].ev.type = "Key" /\ last[1].ev.kind = "Press"
            /\ last[1].ev.code.k \in {"Char", "Backspace"}

\* a backspace has been applied to a buffer of two characters
C9_Witness ==
    /\ Handled /\ last[1].ev = Press(Backspace) /\ last[1].mode = "Editing"
    /\ Len(last[1].input) = 2
    /\ Len(input) = 1 /\ net = 1

(* C10: an event that is not a key press (a key release, a key repeat, a   *)
(* resize, a mouse event) leaves mode, path buffer, series, lastError and  *)
(* running unchanged, in both modes.                                       *)
C10_OnlyPressesActed ==
    [][(EventStep /\ ~(last'[1].ev.type = "Key" /\ last'[1].ev.kind = "Press")) =>
            UNCHANGED <<running, input_mode, input, data, error_message>>]_vars

\* Enter has been released in Editing mode on a non-empty buffer
C10_Witness ==
    /\ Handled /\ last[1].ev = KeyEv(Enter, "Release") /\ last[1].mode = "Editing"
    /\ input # << >> /\ input_mode = "Editing"

\* the frame on screen was rendered from the present state
Rendered == pc = "events" /\ IsSome(frame)

(* C11: for every non-empty series the bounds given to the axes satisfy    *)
(* xMin <= x <= xMax and yMin <= y <= yMax for every record (x, y), and    *)
(* each of the four bounds is the value of some record; for the empty      *)
(* series the bounds are [0, 10] on both axes.                             *)
C11_BoundsAreDataExtent ==
    Rendered =>
        LET xb == frame[1].x_bounds
            yb == frame[1].y_bounds
        IN  IF data = << >>
            THEN xb = <<F64(0), F64(10)>> /\ yb = <<F64(0), F64(10)>>
            ELSE
                /\ \A i \in 1..Len(data) :
                    /\ F64Le(xb[1], data[i][1]) /\ F64Le(data[i][1], xb[2])
                    /\ F64Le(yb[1], data[i][2]) /\ F64Le(data[i][2], yb[2])
                /\ \E i \in 1..Len(data) : data[i][1] = xb[1]
                /\ \E i \in 1..Len(data) : data[i][1] = xb[2]
                /\ \E i \in 1..Len(data) : data[i][2] = yb[1]
                /\ \E i \in 1..Len(data) : data[i][2] = yb[2]

(* C12: the terminal is set up exactly once before the first loop          *)
(* iteration and restored exactly once after the loop ends, whether the    *)
(* loop ends by a quit or by an error of drawing or of reading an event.   *)
C12_SetupTeardownOnce ==
    /\ pc = "main" => (setups = 0 /\ teardowns = 0)
    /\ pc \in {"run", "while", "draw", "events", "restore"} => (setups = 1 /\ teardowns = 0)
    /\ pc = "exit" => (setups = 1 /\ teardowns = 1)
    /\ pc \in {"main", "run", "while", "draw", "events", "restore", "exit"}

\* the program has ended on an error of the loop, after events were handled
C12_Witness ==
    /\ pc = "exit" /\ result = "Err"
    /\ data # << >>
    /\ setups = 1 /\ teardowns = 1

(* C13: a successful load never installs an empty series, and no event     *)
(* empties a non-empty series: once a load has succeeded the series is     *)
(* non-empty.                                                              *)
C13_LoadedSeriesNonEmpty ==
    /\ (LoadCalled /\ ~IsSome(LoadErr(Src))) => data # << >>
    /\ (Handled /\ last[1].data # << >>) => data # << >>

\* a series was loaded and a later load of a file without valid rows has failed
C13_Witness ==
    /\ LoadCalled /\ Src.exists /\ error_message = Some(ErrNoValid)
    /\ last[1].data # << >> /\ data # << >>

(* C14: the mode is always Normal or Editing.                              *)
C14_TwoModes == input_mode \in {"Normal", "Editing"}

\* both modes have been visited and a failed load has left the mode Editing
C14_Witness ==
    /\ LoadCalled /\ IsSome(LoadErr(Src))
    /\ last[1].mode = "Editing" /\ input_mode = "Editing"
    /\ data # << >>

(* C15: one transition fires per event, chosen by the mode held before the *)
(* event: e pressed in Normal mode switches to Editing and appends nothing *)
(* to the path buffer; an Enter whose load succeeds switches to Normal and *)
(* does nothing else (no quit, no edit); every other Normal-mode key press *)
(* than e and q leaves the whole state unchanged.                          *)
C15_OneTransitionPerEvent ==
    [][EventStep =>
        /\ (input_mode = "Normal" /\ last'[1].ev = Press(Char("e"))) =>
            /\ input_mode' = "Editing"
            /\ UNCHANGED <<running, input, data, error_message>>
        /\ (input_mode = "Editing" /\ last'[1].ev = Press(Enter)
                /\ input_mode' = "Normal") =>
            UNCHANGED <<running, input>>
        /\ (input_mode = "Normal" /\ IsKeyPress(last'[1].ev)
                /\ last'[1].ev.code \notin {Char("e"), Char("q")}) =>
            UNCHANGED <<running, input_mode, input, data, error_message>>]_vars

\* e has been pressed in Normal mode over a buffer typed earlier
C15_Witness ==
    /\ Handled /\ last[1].ev = Press(Char("e")) /\ last[1].mode = "Normal"
    /\ input_mode = "Editing"
    /\ input # << >> /\ input = last[1].input

(* C16: only column 0 and column 1 of a row are consulted. A file whose    *)
(* rows after the first are valid rows with or without extra columns, or   *)
(* rows of fewer than 2 columns, loads without error whatever the column   *)
(* counts are, and its series is the records of its valid rows in order.   *)
(* Stated for the rows after the first and for files without malformed     *)
(* rows, so that neither the header row nor the handling of non-numeric    *)
(* fields is involved.                                                     *)
C16_OnlyTwoColumnsConsulted ==
    LoadCalled /\ Src.exists /\ Len(Src.rows) >= 2
        /\ (\A i \in 2..Len(Src.rows) : Valid(Src.rows[i]) \/ Len(Src.rows[i]) < 2)
        /\ (\E i \in 2..Len(Src.rows) : Valid(Src.rows[i]))
    => /\ error_message = None
       /\ LET valid == SelectSeq(Tail(Src.rows), Valid)
          IN  data = [i \in 1..Len(valid) |-> RecordOf(valid[i])]

(* C17: the render asks for a cursor position exactly when the mode is     *)
(* Editing, and its column is the box origin plus the number of characters *)
(* of the path buffer plus 1.                                              *)
C17_CursorAtBufferEnd ==
    Rendered =>
        /\ IsSome(frame[1].cursor) <=> input_mode = "Editing"
        /\ input_mode = "Editing" => frame[1].cursor[1][1] = BoxX + Len(input) + 1

(* C18: lastError and the series change only when Enter is pressed in      *)
(* Editing mode; in particular Esc leaves the error set and the status     *)
(* line showing it.                                                        *)
C18_OnlyEnterTouchesErrorAndSeries ==
    [][/\ (error_message' # error_message \/ data' # data) =>
            (EventStep /\ input_mode = "Editing" /\ last'[1].ev = Press(Enter))
       /\ (EventStep /\ last'[1].ev = Press(Esc)) =>
            StatusLine(Self') = StatusLine(Self)]_vars

\* Esc has returned to Normal mode with the error of a failed load still set
C18_Witness ==
    /\ Handled /\ last[1].ev = Press(Esc) /\ last[1].mode = "Editing"
    /\ input_mode = "Normal"
    /\ IsSome(error_message) /\ StatusLine(Self) = error_message[1]

(* C19: inside the loop running is false only right after a q key press in *)
(* Normal mode; in Editing mode the characters q and e are appended to the *)
(* path buffer and neither quit nor change the mode; no load, whatever its *)
(* outcome, sets running to false.                                         *)
C19_OnlyNormalQQuits ==
    /\ (pc \in {"while", "draw", "events"} /\ ~running) =>
        (Handled /\ last[1].ev = Press(Char("q")) /\ last[1].mode = "Normal")
    /\ \A c \in {"q", "e"} :
        (Handled /\ last[1].ev = Press(Char(c)) /\ last[1].mode = "Editing") =>
            /\ running
            /\ input_mode = "Editing"
            /\ input = Append(last[1].input, c)
    /\ LoadCalled => running

\* q has been typed into the path buffer after e
C19_Witness ==
    /\ Handled /\ last[1].ev = Press(Char("q")) /\ last[1].mode = "Editing"
    /\ input = <<"e", "q">>
    /\ running /\ input_mode = "Editing"

(* C20: whenever the loop waits for an event, Esc can be pressed and leaves *)
(* the mode Normal with the loop still running, and in Normal mode q can   *)
(* be pressed and leaves running false, after which the loop ends: Esc     *)
(* then q quits from every state. The loop ends only with running false or *)
(* on an error of drawing or of reading an event.                          *)
C20_EscThenQQuits ==
    /\ pc = "events" => ENABLED HandleEvents({Press(Esc)}, {})
    /\ (Handled /\ last[1].ev = Press(Esc)) => (input_mode = "Normal" /\ running)
    /\ (pc = "events" /\ input_mode = "Normal") => ENABLED HandleEvents({Press(Char("q"))}, {})
    /\ (Handled /\ last[1].ev = Press(Char("q")) /\ last[1].mode = "Normal") =>
        (~running /\ pc = "while" /\ ENABLED LoopTest /\ ~ENABLED Draw)
    /\ pc \in {"restore", "exit"} => (~running \/ result = "Err")
    /\ (pc \in {"restore", "exit"} /\ ~running) => result = "Ok"

\* Esc has been pressed in Editing mode with an error shown and a series loaded
C20_Witness ==
    /\ Handled /\ last[1].ev = Press(Esc) /\ last[1].mode = "Editing"
    /\ IsSome(error_message) /\ data # << >> /\ input # << >>
    /\ input_mode = "Normal" /\ running

====
